---- MODULE Spec2Model ----
(***************************************************************************)
(* Model of the Send screen (src/src/screens/Send/SendView.tsx): the state *)
(* of one SendView component, its user-event handlers (goNext, goBack, the *)
(* setters) and the asynchronous send()/submit() flows that drive the one  *)
(* Payment instance of the screen through validate, sign, submit, verify.  *)
(*                                                                         *)
(* Every `await` and every promise callback of send()/submit() is a point  *)
(* where user events and other flows interleave, so each send() call is a  *)
(* flow with a program counter (pc) naming the Payment/LedgerService call  *)
(* it is waiting for.  The results of those external calls (resolve with   *)
(* a value, reject with a value) are inputs of the actions.  The finally   *)
(* block of send() runs in a step of its own after sign().then(submit) has *)
(* settled, so other callbacks can run between submit() and the reset of   *)
(* isLoading.                                                              *)
(*                                                                         *)
(* Navigator.pop/popToRoot/showAlertModal and VibrateHapticFeedback act on *)
(* external collaborators and leave the state of the component unchanged;  *)
(* the alert is recorded in the flow that showed it.  destinationInfo and  *)
(* scanResult are stored by their setters and read by no handler.          *)
(*                                                                         *)
(* Three smaller components have their own variables and specification:    *)
(* the Blob field accessors (Blob.ts, BlobSpec), the AmountText component  *)
(* (AmountText.tsx, AmountTextSpec) and the NFT amount codec as the Send   *)
(* screen uses it (CodecSpec).  Strings are sequences of characters and    *)
(* numbers are a sign, decimal digits and an exponent; Number() rounds to  *)
(* the nearest IEEE 754 double and String() writes its shortest digits, so *)
(* that Number(), String() and the NFT encoding are computed, not assumed. *)
(* Each specification leaves the variables of the other components         *)
(* unchanged.  LiveSpec is Spec with every awaited promise settling.       *)
(***************************************************************************)
EXTENDS Bags, FiniteSets, Integers, Sequences, TLC

(* ------------------------------ bounds --------------------------------- *)

\* number of send() calls one screen instance makes in a behaviour
MaxFlows == 2

(* --------------------------- value domains ----------------------------- *)

\* optional values: undefined is the empty sequence, a defined v is <<v>>
None == <<>>
Some(v) == <<v>>

\* Steps enum (Steps from ./types, used at SendView.tsx:65,140,147,159,246-256)
Steps == {"Details", "Recipient", "Summary", "Submitting", "Verifying", "Result"}

\* addresses of the spendable accounts (AccountRepository.getSpendableAccounts)
Accounts == {"rA", "rB"}

\* the native currency: state.currency is the string 'XRP'
XRP == [type |-> "string", currency |-> "XRP", issuer |-> "", isNFT |-> FALSE]

\* a trust line (TrustLineSchema): currency.currency.{currency,issuer}, isNFT
TrustLine(code, issuer, nft) ==
    [type |-> "TrustLine", currency |-> code, issuer |-> issuer, isNFT |-> nft]

\* currencies the user can pick: XRP and an IOU issued by the account rA
\* (its own issuer when the source is rA, a third party's when it is rB)
Currencies == {XRP, TrustLine("USD", "rA", FALSE)}

\* amounts of the payment (props.amount, and what the user types); no branch
\* of SendView depends on the amount, so one value stands for all
Amounts == {<<"1", "0">>}

\* destinations the user can pick
Destinations == {[address |-> "rD", tag |-> None]}

\* results of LedgerService.getAccountTransferRate: 0 is "no rate" (falsy)
TransferRates == {0, 1}

\* values a rejected promise can carry, by call; "undefined" is a rejection
\* without a value (falsy), which the catch block of send() tests with if (e)
Rejections ==
    [getAccountTransferRate |-> {"TransportError"},
     validate |-> {"ValidationError"},
     sign |-> {"SigningError", "undefined"}]

\* results a resolved payment.submit() / payment.verify() can carry
Results == {"success", "failure"}

\* what a resolved payment.verify() can report: the final outcome that the
\* ledger gave the transaction, or "timeout" when its polling ended without
\* one; result.success is true for "success" only
VerifyResults == Results \cup {"timeout"}

\* txFlags.Payment.PartialPayment
PartialPayment == "PartialPayment"

(* ------------------------- JavaScript values --------------------------- *)

\* a string is the sequence of its characters; a JavaScript value is a
\* record of its typeof and its text (for a number: its literal)
Undefined == [type |-> "undefined", chars |-> <<>>]
Str(chars) == [type |-> "string", chars |-> chars]
Num(chars) == [type |-> "number", chars |-> chars]

\* typeof value
TypeOf(value) == value.type

(* ---------- Blob field (src/src/common/libs/ledger/parser/fields/Blob.ts) *)

\* longest string given to a Blob setter
MaxBlobLen == 2

\* the names of the Blob fields of one transaction instance
FieldNames == {"URI", "Digest"}

\* the characters of the strings given to the setter: a lower-case and an
\* upper-case hexadecimal digit, and a character that is no hexadecimal digit
BlobChars == {"a", "F", "z"}

\* the strings of at most n characters
BlobStrings(n) == UNION {[1..k -> BlobChars] : k \in 0..n}

\* the values a caller passes to the setter: undefined, a number, strings
BlobValues == {Undefined, Num(<<"7">>)} \cup {Str(c) : c \in BlobStrings(MaxBlobLen)}

VARIABLES
    self,          \* the fields of the instance that owns the Blob fields
    blobCall       \* the last getter/setter call and its outcome

blobVars == <<self, blobCall>>

\* a new instance: no field is assigned, no accessor was called
BlobNew ==
    /\ self = [name \in FieldNames |-> Undefined]
    /\ blobCall = [op |-> "none", name |-> "", value |-> Undefined,
                   thrown |-> "none"]

\* mutant of IsUndefined: the setter does not test for undefined
IsUndefined_NoTest(value) == FALSE

\* typeof value === 'undefined' (Blob.ts:10)
IsUndefined(value) == TypeOf(value) = "undefined"

\* mutant of BlobStored: the setter stores the upper-case form of the string
BlobStored_UpperCase(value) ==
    Str([i \in DOMAIN value.chars |->
            IF value.chars[i] = "a" THEN "A" ELSE value.chars[i]])

\* what the setter assigns to self[name] for a string (Blob.ts:20)
BlobStored(value) == value

\* Blob.getter(self, name)() (Blob.ts:3-7)
getter(obj, name) == obj[name]

\* Blob.setter(self, name)(value) (Blob.ts:8-22): the fields afterwards and
\* what the call threw
setter(obj, name, value) ==
    IF IsUndefined(value)
    THEN [self |-> [obj EXCEPT ![name] = Undefined], thrown |-> "none"]
    ELSE IF TypeOf(value) # "string"
         THEN [self |-> obj, thrown |-> "Error"]
         ELSE [self |-> [obj EXCEPT ![name] = BlobStored(value)],
               thrown |-> "none"]

\* a caller assigns value to the field name
BlobSet(name, value) ==
    LET r == setter(self, name, value)
    IN  /\ self' = r.self
        /\ blobCall' = [op |-> "set", name |-> name, value |-> value,
                        thrown |-> r.thrown]

\* a caller reads the field name
BlobGet(name) ==
    /\ blobCall' = [op |-> "get", name |-> name, value |-> getter(self, name),
                    thrown |-> "none"]
    /\ UNCHANGED self

(* ------------------------- JavaScript numbers -------------------------- *)

\* the decimal digits and the value of one
Digits == <<"0", "1", "2", "3", "4", "5", "6", "7", "8", "9">>
IsDigit(c) == \E i \in DOMAIN Digits : Digits[i] = c
DigitValue(c) ==
    CASE c = "0" -> 0 [] c = "1" -> 1 [] c = "2" -> 2 [] c = "3" -> 3
      [] c = "4" -> 4 [] c = "5" -> 5 [] c = "6" -> 6 [] c = "7" -> 7
      [] c = "8" -> 8 [] c = "9" -> 9

\* c.repeat(n)
Repeat(c, n) == [i \in 1..n |-> c]

\* s.indexOf(c) + 1: the place of the first c in s, 0 if there is none
IndexOf(s, c) ==
    IF \E i \in DOMAIN s : s[i] = c
    THEN CHOOSE i \in DOMAIN s : s[i] = c /\ \A j \in 1..(i - 1) : s[j] # c
    ELSE 0

\* s without its leading / trailing zeros
StripLeadingZeros(s) ==
    SubSeq(s,
           1 + CHOOSE k \in 0..Len(s) :
                   /\ k = Len(s) \/ s[k + 1] # "0"
                   /\ \A i \in 1..k : s[i] = "0",
           Len(s))
StripTrailingZeros(s) ==
    SubSeq(s, 1,
           CHOOSE k \in 0..Len(s) :
               /\ k = 0 \/ s[k] # "0"
               /\ \A i \in (k + 1)..Len(s) : s[i] = "0")

\* the natural number written by the digits s, and the digits of n
RECURSIVE ParseNat(_)
ParseNat(s) ==
    IF s = <<>> THEN 0
    ELSE 10 * ParseNat(SubSeq(s, 1, Len(s) - 1)) + DigitValue(s[Len(s)])
RECURSIVE NatToChars(_)
NatToChars(n) ==
    IF n < 10 THEN <<Digits[n + 1]>>
    ELSE NatToChars(n \div 10) \o <<Digits[(n % 10) + 1]>>

\* a number is a sign, its significant digits sig (no leading and no
\* trailing zero) and a decimal exponent: plus or minus the integer sig times
\* 10^exp.  sig is empty for 0 and -0; NaN and the infinities have a word in
\* the place of the digits
Zero == [neg |-> FALSE, sig |-> <<>>, exp |-> 0]
One == [neg |-> FALSE, sig |-> <<"1">>, exp |-> 0]
NaN == [neg |-> FALSE, sig |-> <<"NaN">>, exp |-> 0]
Infinity == [neg |-> FALSE, sig |-> <<"Infinity">>, exp |-> 0]

IsNaN(x) == x.sig = <<"NaN">>
IsInfinite(x) == x.sig = <<"Infinity">>
IsFinite(x) == ~IsNaN(x) /\ ~IsInfinite(x)

\* x === 0 (true of 0 and of -0)
IsZero(x) == x.sig = <<>>

\* the number of digits of a finite x before the decimal point (negative:
\* zeros after it)
Point(x) == Len(x.sig) + x.exp

\* the finite number with the digits digs and the exponent exp, which may
\* have leading and trailing zeros
Normalize(digs, exp) ==
    LET head == StripTrailingZeros(digs)
        sig == StripLeadingZeros(head)
    IN  IF sig = <<>> THEN Zero
        ELSE [neg |-> FALSE, sig |-> sig,
              exp |-> exp + (Len(digs) - Len(head))]

\* |x| < |y| for finite x and y
LessAbs(x, y) ==
    LET digit(s, i) == IF i <= Len(s) THEN DigitValue(s[i]) ELSE 0
        n == IF Len(x.sig) > Len(y.sig) THEN Len(x.sig) ELSE Len(y.sig)
    IN  IF IsZero(y) THEN FALSE
        ELSE IF IsZero(x) THEN TRUE
        ELSE IF Point(x) # Point(y) THEN Point(x) < Point(y)
        ELSE \E i \in 1..n :
                /\ digit(x.sig, i) < digit(y.sig, i)
                /\ \A j \in 1..(i - 1) : digit(x.sig, j) = digit(y.sig, j)

\* x < y: false when one of them is NaN, and of 0 and -0
Less(x, y) ==
    LET below(a, b) == \* |a| < |b|, the infinities included
            IF IsInfinite(a) THEN FALSE
            ELSE IF IsInfinite(b) THEN TRUE
            ELSE LessAbs(a, b)
    IN  IF IsNaN(x) \/ IsNaN(y) THEN FALSE
        ELSE IF IsZero(x) /\ IsZero(y) THEN FALSE
        ELSE IF x.neg /\ ~y.neg THEN TRUE
        ELSE IF ~x.neg /\ y.neg THEN FALSE
        ELSE IF x.neg THEN below(y, x)
        ELSE below(x, y)

(* exact arithmetic on finite numbers that are not negative *)

\* the digit of 10^p in x
DigitAt(x, p) ==
    LET i == Len(x.sig) - (p - x.exp)
    IN  IF i < 1 \/ i > Len(x.sig) THEN 0 ELSE DigitValue(x.sig[i])

\* the digits of x + y + carry from the digit of 10^lo to the digit of
\* 10^hi, and the carry out of them; the lower half first, for its carry
RECURSIVE AddRange(_, _, _, _, _)
AddRange(x, y, lo, hi, carry) ==
    IF lo = hi
    THEN LET t == DigitAt(x, lo) + DigitAt(y, lo) + carry
         IN  [carry |-> t \div 10, digits |-> <<Digits[(t % 10) + 1]>>]
    ELSE LET mid == lo + ((hi - lo) \div 2)
             low == AddRange(x, y, lo, mid, carry)
             high == IF low.carry = 0 THEN AddRange(x, y, mid + 1, hi, 0)
                     ELSE AddRange(x, y, mid + 1, hi, 1)
         IN  [carry |-> high.carry, digits |-> high.digits \o low.digits]

\* x + y
Add(x, y) ==
    IF IsZero(x) THEN y
    ELSE IF IsZero(y) THEN x
    ELSE LET e == IF x.exp < y.exp THEN x.exp ELSE y.exp
             top == IF Point(x) > Point(y) THEN Point(x) ELSE Point(y)
         IN  Normalize(AddRange(x, y, e, top, 0).digits, e)

\* the digits of x - y - borrow from the digit of 10^lo to the digit of
\* 10^hi, and the borrow out of them
RECURSIVE SubRange(_, _, _, _, _)
SubRange(x, y, lo, hi, borrow) ==
    IF lo = hi
    THEN LET t == DigitAt(x, lo) - DigitAt(y, lo) - borrow
         IN  [borrow |-> IF t < 0 THEN 1 ELSE 0,
              digits |-> <<Digits[(IF t < 0 THEN t + 10 ELSE t) + 1]>>]
    ELSE LET mid == lo + ((hi - lo) \div 2)
             low == SubRange(x, y, lo, mid, borrow)
             high == IF low.borrow = 0 THEN SubRange(x, y, mid + 1, hi, 0)
                     ELSE SubRange(x, y, mid + 1, hi, 1)
         IN  [borrow |-> high.borrow, digits |-> high.digits \o low.digits]

\* x - y, for x >= y
Sub(x, y) ==
    IF IsZero(y) THEN x
    ELSE LET e == IF x.exp < y.exp THEN x.exp ELSE y.exp
         IN  Normalize(SubRange(x, y, e, Point(x), 0).digits, e)

\* 2 * x: a digit of the double is twice the digit, modulo 10, and the carry
\* of the digit to its right, which is 1 exactly if that digit is 5 or more
Double(x) ==
    LET n == Len(x.sig)
        d(i) == IF i < 1 \/ i > n THEN 0 ELSE DigitValue(x.sig[i])
    IN  Normalize([i \in 1..(n + 1) |->
                      Digits[((2 * d(i - 1)) % 10) +
                             (IF d(i) >= 5 THEN 1 ELSE 0) + 1]],
                  x.exp)

\* x / 2: a digit of the half is half the digit and 5 more if the digit to
\* its left is odd
Halve(x) ==
    LET n == Len(x.sig)
        d(i) == IF i < 1 \/ i > n THEN 0 ELSE DigitValue(x.sig[i])
    IN  Normalize([i \in 1..(n + 1) |->
                      Digits[(d(i) \div 2) +
                             (IF d(i - 1) % 2 = 1 THEN 5 ELSE 0) + 1]],
                  x.exp - 1)

\* x * 2^e
RECURSIVE TimesPow2(_, _)
TimesPow2(x, e) ==
    IF e = 0 \/ IsZero(x) THEN x
    ELSE IF e = 1 THEN Double(x)
    ELSE IF e = -1 THEN Halve(x)
    ELSE LET h == IF e > 0 THEN e \div 2 ELSE 0 - ((0 - e) \div 2)
         IN  TimesPow2(TimesPow2(x, h), e - h)

\* Math.trunc(x)
Trunc(x) ==
    IF ~IsFinite(x) \/ IsZero(x) THEN x
    ELSE IF Point(x) <= 0 THEN [Zero EXCEPT !.neg = x.neg]
    ELSE IF x.exp >= 0 THEN x
    ELSE LET kept == SubSeq(x.sig, 1, Point(x))
             sig == StripTrailingZeros(kept)
         IN  [neg |-> x.neg, sig |-> sig, exp |-> Len(kept) - Len(sig)]

(* IEEE 754 binary64 *)

\* 2^52 and 2^53: the significand m of a double m * 2^e is below 2^53, and
\* at least 2^52 unless e is the least exponent
MinExponent == -1074
MaxExponent == 971
TwoTo52 == [neg |-> FALSE, sig |-> <<"4", "5", "0", "3", "5", "9", "9", "6",
                                     "2", "7", "3", "7", "0", "4", "9", "6">>,
            exp |-> 0]
TwoTo53 == [neg |-> FALSE, sig |-> <<"9", "0", "0", "7", "1", "9", "9", "2",
                                     "5", "4", "7", "4", "0", "9", "9", "2">>,
            exp |-> 0]

\* c lies in the interval from lo to hi, its ends included if closed
Within(c, lo, hi, closed) ==
    IF closed THEN ~LessAbs(c, lo) /\ ~LessAbs(hi, c)
    ELSE LessAbs(lo, c) /\ LessAbs(c, hi)

\* the decimal with the fewest digits, from n digits on, that lies in the
\* rounding interval [lo, hi] of the double x (its ends included exactly if
\* the significand of x is even); of two such decimals the one closer to x,
\* and the even one if they are as close (Number::toString, step 5).  down
\* is x cut to its first n digits, up is down with its last digit one higher
RECURSIVE Shortest(_, _, _, _, _)
ShortestOf(x, lo, hi, closed, n, down, up, downWithin, upWithin) ==
    IF downWithin /\ upWithin
    THEN IF LessAbs(Sub(x, down), Sub(up, x)) THEN down
         ELSE IF LessAbs(Sub(up, x), Sub(x, down)) THEN up
         ELSE IF DigitValue(x.sig[n]) % 2 = 0 THEN down
         ELSE up
    ELSE IF downWithin THEN down
    ELSE IF upWithin THEN up
    ELSE Shortest(x, lo, hi, closed, n + 1)
ShortestNear(x, lo, hi, closed, n, down, up) ==
    ShortestOf(x, lo, hi, closed, n, down, up,
               Within(down, lo, hi, closed), Within(up, lo, hi, closed))
Shortest(x, lo, hi, closed, n) ==
    IF Len(x.sig) <= n THEN x
    ELSE ShortestNear(x, lo, hi, closed, n,
             Normalize(SubSeq(x.sig, 1, n), x.exp + (Len(x.sig) - n)),
             Add(Normalize(SubSeq(x.sig, 1, n), x.exp + (Len(x.sig) - n)),
                 [One EXCEPT !.exp = x.exp + (Len(x.sig) - n)]))

\* the integer m is odd
IsOdd(m) ==
    ~IsZero(m) /\ m.exp = 0 /\ DigitValue(m.sig[Len(m.sig)]) % 2 = 1

\* the integer nearest to w, whose integer part is floor; of two that are
\* as near the even one
NearestTo(w, floor) ==
    IF \/ LessAbs([Zero EXCEPT !.sig = <<"5">>, !.exp = -1], Sub(w, floor))
       \/ /\ Sub(w, floor) = [Zero EXCEPT !.sig = <<"5">>, !.exp = -1]
          /\ IsOdd(floor)
    THEN Add(floor, One)
    ELSE floor

\* the double m * 2^e for a significand m <= 2^53, written with the fewest
\* digits that identify it: the doubles next to it are 2^e away, and the one
\* below a power of two half of that
RECURSIVE DoubleOf(_, _)
DoubleOf(m, e) ==
    IF IsZero(m) THEN Zero
    ELSE IF m = TwoTo53 THEN DoubleOf(TwoTo52, e + 1)
    ELSE IF e > MaxExponent THEN Infinity
    ELSE Shortest(TimesPow2(m, e),
                  Sub(TimesPow2(m, e),
                      TimesPow2(One, IF m = TwoTo52 /\ e > MinExponent
                                     THEN e - 2
                                     ELSE e - 1)),
                  Add(TimesPow2(m, e), TimesPow2(One, e - 1)),
                  ~IsOdd(m), 1)

\* the double nearest to w * 2^e: w is brought to 2^52 <= w < 2^53, or to
\* w < 2^52 with e the least exponent, and rounded to an integer
RECURSIVE NearestDouble(_, _)
NearestDouble(w, e) ==
    IF ~LessAbs(w, TwoTo53) THEN NearestDouble(Halve(w), e + 1)
    ELSE IF LessAbs(w, TwoTo52) /\ e > MinExponent
         THEN NearestDouble(Double(w), e - 1)
    ELSE DoubleOf(NearestTo(w, Trunc(w)), e)

\* a binary exponent a little below that of the decimal v
FirstExponent(v) ==
    LET e == ((Point(v) - 16) * 3322) \div 1000
    IN  IF e < MinExponent THEN MinExponent ELSE e

\* the double nearest to the decimal v (ties to the even significand),
\* written with the fewest digits that identify it.  A decimal of at most 15
\* digits in the range of the normal doubles is that double's shortest
\* writing.  A double and the middle of two doubles have fewer than 772
\* digits, so the digits after the 772nd count only for not being all 0:
\* they are read as one digit 1
RECURSIVE ToDouble(_)
ToDouble(v) ==
    IF ~IsFinite(v) \/ IsZero(v) THEN v
    ELSE IF Len(v.sig) <= 15 /\ Point(v) >= -306 /\ Point(v) <= 308
    THEN v
    ELSE IF Point(v) > 309 THEN [Infinity EXCEPT !.neg = v.neg]
    ELSE IF Point(v) < -324 THEN [Zero EXCEPT !.neg = v.neg]
    ELSE IF Len(v.sig) > 773
    THEN ToDouble([v EXCEPT !.sig = SubSeq(v.sig, 1, 772) \o <<"1">>,
                            !.exp = v.exp + (Len(v.sig) - 773)])
    ELSE [NearestDouble(TimesPow2([v EXCEPT !.neg = FALSE],
                                  0 - FirstExponent(v)),
                        FirstExponent(v))
             EXCEPT !.neg = v.neg]

(* StringToNumber *)

\* the white space and the line terminators that Number() strips
\* (StrWhiteSpaceChar): space, TAB, LF, CR, FF, then VT (U+000B), NBSP
\* (U+00A0), the byte order mark (U+FEFF) and the Ogham space mark (U+1680)
\* written as the characters they are, then the other space separators,
\* LS and PS, which a character of a string holds under the name of its code
\* point
WhiteSpace ==
    {" ", "\t", "\n", "\r", "\f", "", " ", "﻿", " ",
     "U+2000", "U+2001", "U+2002", "U+2003", "U+2004", "U+2005",
     "U+2006", "U+2007", "U+2008", "U+2009", "U+200A", "U+2028",
     "U+2029", "U+202F", "U+205F", "U+3000"}
TrimStart(s) ==
    SubSeq(s,
           1 + CHOOSE k \in 0..Len(s) :
                   /\ k = Len(s) \/ s[k + 1] \notin WhiteSpace
                   /\ \A i \in 1..k : s[i] \in WhiteSpace,
           Len(s))
TrimEnd(s) ==
    SubSeq(s, 1,
           CHOOSE k \in 0..Len(s) :
               /\ k = 0 \/ s[k] \notin WhiteSpace
               /\ \A i \in (k + 1)..Len(s) : s[i] \in WhiteSpace)

AllDigits(s) == \A i \in DOMAIN s : IsDigit(s[i])

\* the value of the digits of an exponent.  A string has fewer than 2^30
\* characters, so no mantissa reaches an exponent of ten or more digits: the
\* number is then 0 or infinite, as it is with the exponent 999999999
ExponentValue(s) ==
    LET digs == StripLeadingZeros(s)
    IN  IF Len(digs) > 9 THEN 999999999 ELSE ParseNat(digs)

\* the place of the exponent indicator e or E in chars, 0 if it has none
ExponentAt(chars) ==
    LET lower == IndexOf(chars, "e")
        upper == IndexOf(chars, "E")
    IN  IF lower = 0 THEN upper
        ELSE IF upper = 0 THEN lower
        ELSE IF lower < upper THEN lower
        ELSE upper

\* the digits of an exponent part [+ or -] digits
ExponentDigits(expo) ==
    IF expo # <<>> /\ Head(expo) \in {"-", "+"} THEN Tail(expo) ELSE expo

\* the decimal int.frac * 10^expVal; NaN if int and frac are not digits or
\* both are empty
Mantissa(int, frac, expVal) ==
    IF AllDigits(int) /\ AllDigits(frac) /\ int \o frac # <<>>
    THEN Normalize(int \o frac, expVal - Len(frac))
    ELSE NaN

\* the decimal mant * 10^expVal for mant of the form digits [. digits] or
\* . digits
Scientific(mant, dot, expVal) ==
    Mantissa(IF dot = 0 THEN mant ELSE SubSeq(mant, 1, dot - 1),
             IF dot = 0 THEN <<>> ELSE SubSeq(mant, dot + 1, Len(mant)),
             expVal)

\* the decimal written by chars with the exponent indicator at ePos and the
\* exponent part expo after it
DecimalAt(chars, ePos, expo) ==
    IF ePos = 0 THEN Scientific(chars, IndexOf(chars, "."), 0)
    ELSE IF ExponentDigits(expo) # <<>> /\ AllDigits(ExponentDigits(expo))
    THEN Scientific(SubSeq(chars, 1, ePos - 1),
                    IndexOf(SubSeq(chars, 1, ePos - 1), "."),
                    IF Head(expo) = "-"
                    THEN 0 - ExponentValue(ExponentDigits(expo))
                    ELSE ExponentValue(ExponentDigits(expo)))
    ELSE NaN

\* the decimal written by an unsigned decimal literal: digits [. digits] or
\* . digits, then an optional exponent e or E [+ or -] digits; NaN for any
\* other string
Decimal(chars) ==
    DecimalAt(chars, ExponentAt(chars),
              SubSeq(chars, ExponentAt(chars) + 1, Len(chars)))

\* the digits of the radixes 2, 8 and 16, and the integer written by the
\* digits of a literal 0b..., 0o... or 0x...
RadixDigits ==
    <<"0", "1", "2", "3", "4", "5", "6", "7", "8", "9",
      "a", "b", "c", "d", "e", "f">>
RadixOf(c) ==
    IF c \in {"x", "X"} THEN 16
    ELSE IF c \in {"o", "O"} THEN 8
    ELSE IF c \in {"b", "B"} THEN 2
    ELSE 0
RadixValue(c) ==
    LET lower == IF c \in {"A", "B", "C", "D", "E", "F"}
                 THEN RadixDigits[10 + IndexOf(<<"A", "B", "C", "D", "E", "F">>, c)]
                 ELSE c
    IN  IndexOf(RadixDigits, lower) - 1
IsRadixLiteral(chars) ==
    /\ Len(chars) >= 3
    /\ chars[1] = "0"
    /\ RadixOf(chars[2]) # 0
    /\ \A i \in 3..Len(chars) :
          RadixValue(chars[i]) >= 0 /\ RadixValue(chars[i]) < RadixOf(chars[2])
RECURSIVE RadixInteger(_, _)
RadixInteger(digs, bits) ==
    IF digs = <<>> THEN Zero
    ELSE IF Len(StripLeadingZeros(digs)) * bits > 1100 THEN Infinity
    ELSE IF Len(digs) = 1
    THEN Normalize(NatToChars(RadixValue(digs[1])), 0)
    ELSE Add(TimesPow2(RadixInteger(SubSeq(digs, 1, Len(digs) \div 2), bits),
                       bits * (Len(digs) - (Len(digs) \div 2))),
             RadixInteger(SubSeq(digs, (Len(digs) \div 2) + 1, Len(digs)),
                          bits))

\* x with the sign of a literal
WithSign(x, neg) == IF IsNaN(x) THEN x ELSE [x EXCEPT !.neg = neg]

\* the number written by an unsigned literal: Infinity or a decimal
Unsigned(body) ==
    IF body = <<"I", "n", "f", "i", "n", "i", "t", "y">> THEN Infinity
    ELSE Decimal(body)

\* the number written by a string without white space around it, not
\* rounded
Literal(s) ==
    IF s = <<>> THEN Zero
    ELSE IF IsRadixLiteral(s)
    THEN RadixInteger(SubSeq(s, 3, Len(s)),
                      IF RadixOf(s[2]) = 16 THEN 4
                      ELSE IF RadixOf(s[2]) = 8 THEN 3
                      ELSE 1)
    ELSE WithSign(Unsigned(IF Head(s) \in {"-", "+"} THEN Tail(s) ELSE s),
                  Head(s) = "-")

\* the number written by a string (StringToNumber): white space is
\* stripped; '' is 0; Infinity, a decimal literal, each with an optional
\* sign, or a binary, octal or hexadecimal integer literal; NaN for any other
\* string.  The value is rounded to the nearest double
ParseNumber(chars) == ToDouble(Literal(TrimEnd(TrimStart(chars))))

\* Number(value) of a string or a number
Number(value) == ParseNumber(value.chars)

\* new BigNumber(value): the decimal written by a string, not rounded
BigNumber(value) ==
    IF value.chars = <<>> THEN NaN
    ELSE WithSign(Unsigned(IF Head(value.chars) \in {"-", "+"}
                           THEN Tail(value.chars)
                           ELSE value.chars),
                  Head(value.chars) = "-")

\* x cut after p fractional digits
TruncateTo(x, p) ==
    IF ~IsFinite(x) \/ IsZero(x) THEN x
    ELSE IF x.exp >= 0 - p THEN x
    ELSE IF Point(x) + p <= 0 THEN [Zero EXCEPT !.neg = x.neg]
    ELSE LET kept == SubSeq(x.sig, 1, Point(x) + p)
             sig == StripTrailingZeros(kept)
         IN  IF sig = <<>> THEN [Zero EXCEPT !.neg = x.neg]
             ELSE [neg |-> x.neg, sig |-> sig,
                   exp |-> (Len(kept) - Len(sig)) - p]

\* x in positional notation, without exponent (BigNumber.toFixed())
ToFixed(x) ==
    LET abs == IF IsZero(x) THEN <<"0">>
               ELSE IF Point(x) >= Len(x.sig)
                    THEN x.sig \o Repeat("0", x.exp)
               ELSE IF Point(x) > 0
                    THEN SubSeq(x.sig, 1, Point(x)) \o <<".">> \o
                         SubSeq(x.sig, Point(x) + 1, Len(x.sig))
               ELSE <<"0", ".">> \o Repeat("0", 0 - Point(x)) \o x.sig
    IN  IF IsNaN(x) THEN <<"N", "a", "N">>
        ELSE IF IsInfinite(x)
        THEN (IF x.neg THEN <<"-">> ELSE <<>>) \o
             <<"I", "n", "f", "i", "n", "i", "t", "y">>
        ELSE IF x.neg THEN <<"-">> \o abs
        ELSE abs

\* String(x) of a number (Number::toString): positional notation when the
\* decimal point lies within 21 digits before and 6 zeros after it, the
\* exponent notation otherwise; -0 is written 0
NumberToString(x) ==
    LET n == Point(x)
        e == n - 1
        exponent == IF e < 0 THEN <<"e", "-">> \o NatToChars(0 - e)
                    ELSE <<"e", "+">> \o NatToChars(e)
        sign == IF x.neg THEN <<"-">> ELSE <<>>
    IN  IF IsZero(x) THEN <<"0">>
        ELSE IF ~IsFinite(x) \/ (-6 < n /\ n <= 21) THEN ToFixed(x)
        ELSE IF Len(x.sig) = 1 THEN sign \o x.sig \o exponent
        ELSE sign \o <<Head(x.sig), ".">> \o Tail(x.sig) \o exponent

\* the boolean false
False == [type |-> "boolean", chars |-> <<"f", "a", "l", "s", "e">>]

\* String(value)
String(value) ==
    IF TypeOf(value) = "number" THEN NumberToString(Number(value))
    ELSE IF TypeOf(value) = "undefined"
         THEN <<"u", "n", "d", "e", "f", "i", "n", "e", "d">>
    ELSE value.chars

\* the number x as a JavaScript value
NumberValue(x) == Num(NumberToString(x))

(* ------------- NFT amounts (@common/utils/amount, Localize) ------------ *)

\* an NFT ordinal n is written on the wire as the amount n * 10^-NFTDecimals;
\* the amounts below 10^-NFTRange are reserved for NFTs.  @common/utils/amount
\* is not among the sources: the shift and the range are a convention assumed
\* here, and nothing is concluded from the codec being its own inverse
NFTDecimals == 81
NFTRange == 70

\* number of fractional digits an amount is displayed with
DisplayPrecision == 8

\* largest NFT ordinal that is encoded and decoded
MaxOrdinal == 12

\* NFTValueToXRPL(value): the ordinal, a string of digits, moved behind the
\* decimal point into the reserved range
NFTValueToXRPL(value) ==
    <<"0", ".">> \o Repeat("0", NFTDecimals - Len(value)) \o value

\* XRPLValueToNFT(value): the ordinal of a number in the reserved range,
\* false for every other number
XRPLValueToNFT(x) ==
    IF /\ IsFinite(x) /\ ~IsZero(x) /\ ~x.neg
       /\ Point(x) <= 0 - NFTRange /\ x.exp >= 0 - NFTDecimals
    THEN NumberValue([x EXCEPT !.exp = @ + NFTDecimals])
    ELSE False

\* Localize.formatNumber(value): the number in positional notation, cut
\* after the display precision
formatNumber(value) == ToFixed(TruncateTo(Number(value), DisplayPrecision))

(* ------ AmountText (src/src/components/General/AmountText/AmountText.tsx) *)

\* const PRECISION, const MAX_VALUE (AmountText.tsx:95-96)
PRECISION == 8
MAX_VALUE == 99999

\* the display of an amount too small to show: '0' and the ellipsis
\* character U+2026, written "..." here
Ellipsis == <<"0", "...">>

\* the values a parent passes as props.value (number | string): zero in three
\* notations, amounts below, at and above the low threshold, ordinary
\* amounts, amounts above MAX_VALUE, one of them with the integer part
\* MAX_VALUE and one with more digits than a
\* double holds, an amount with white space around it, and NFT amounts
AmountValues ==
    {Num(<<"0">>), Str(<<"0">>), Str(<<"0", ".", "0">>),
     Str(<<"0", ".">> \o Repeat("0", 8) \o <<"1">>),
     Str(<<"0", ".">> \o Repeat("0", 8) \o <<"2">>),
     Num(<<"1", "e", "-", "9">>),
     Str(<<"0", ".">> \o Repeat("0", 8) \o <<"9">>),
     Str(<<"1", "2", ".", "5">>),
     Str(NatToChars(MAX_VALUE)),
     Str(NatToChars(MAX_VALUE) \o <<".", "5">>),
     Str(NatToChars(150000)),
     Num(NatToChars(150000) \o <<".", "7">>),
     Str(Repeat("9", 16)),
     Str(<<" ", "7", " ">>),
     Str(NFTValueToXRPL(<<"3">>)),
     Num(<<"1", "e", "-", "8", "1">>)}

VARIABLES
    props,         \* this.props of the AmountText (value)
    state,         \* this.state of the AmountText
    alert          \* the amount in the Alert that is open (None: no alert)

amountTextVars == <<props, state, alert>>

\* this.state of the constructor (AmountText.tsx:43-48)
InitialState ==
    [originalValue |-> Undefined, value |-> Str(<<>>),
     truncated |-> "undefined", showOriginalValue |-> FALSE]

\* mutant of ZeroDisplay: zero is displayed like an amount too small to show
ZeroDisplay_Ellipsis(x) == Ellipsis

\* value: String(value) for the number 0 (AmountText.tsx:80)
ZeroDisplay(x) == NumberToString(x)

\* truncated: 'LOW' for value > 0 && value < Number(`0.${'0'.repeat(
\* PRECISION)}9`), 'HIGH' for value > MAX_VALUE, or undefined
\* (AmountText.tsx:98-110)
Truncation(value) ==
    IF /\ Less(Zero, value)
       /\ Less(value, ParseNumber(<<"0", ".">> \o Repeat("0", PRECISION)
                                     \o <<"9">>))
    THEN "LOW"
    ELSE IF Less(ParseNumber(NatToChars(MAX_VALUE)), value) THEN "HIGH"
    ELSE "undefined"

\* newValue: the ellipsis for a low amount, the formatted integer part of a
\* high one, the formatted amount otherwise (AmountText.tsx:98-113)
NewValue(value, truncated) ==
    IF truncated = "LOW" THEN Str(Ellipsis)
    ELSE Str(formatNumber(NumberValue(IF truncated = "HIGH"
                                      THEN Trunc(value)
                                      ELSE value)))

\* the state for the number value, its NFT ordinal, its display newValue
\* and its flag truncated (AmountText.tsx:77-125)
Derived(prevState, value, NFT, newValue, truncated) ==
    IF IsZero(value)
    THEN [prevState EXCEPT !.originalValue = Str(NumberToString(value)),
                           !.value = Str(ZeroDisplay(value))]
    ELSE IF NFT # False
    THEN [prevState EXCEPT !.originalValue = Str(NumberToString(value)),
                           !.value = NFT]
    ELSE IF newValue # prevState.value
    THEN [prevState EXCEPT !.originalValue = Str(NumberToString(value)),
                           !.value = newValue,
                           !.truncated = truncated]
    ELSE prevState

\* the state for the number value (AmountText.tsx:77-125)
DerivedFrom(prevState, value) ==
    Derived(prevState, value, XRPLValueToNFT(value),
            NewValue(value, Truncation(value)), Truncation(value))

\* getDerivedStateFromProps (AmountText.tsx:66-126): the state after React
\* merged what the function returns (null: the state as it was)
getDerivedStateFromProps(nextProps, prevState) ==
    IF prevState.originalValue = Str(String(nextProps.value))
    THEN prevState
    ELSE DerivedFrom(prevState, Number(nextProps.value))

\* the test of alertOriginalValue for an amount in exponent notation
\* (AmountText.tsx:141)
HasExponent(chars) ==
    \E i \in 2..(Len(chars) - 1) :
        /\ chars[i] \in {"e", "E"}
        /\ IsDigit(chars[i - 1])
        /\ \/ IsDigit(chars[i + 1])
           \/ /\ chars[i + 1] \in {"-", "+"}
              /\ i + 2 <= Len(chars)
              /\ IsDigit(chars[i + 2])

\* the amount that alertOriginalValue shows (AmountText.tsx:136-149)
alertOriginalValue(st) ==
    LET amount == String(st.originalValue)
    IN  IF HasExponent(amount) THEN ToFixed(BigNumber(st.originalValue))
        ELSE amount

\* showValue of getValue (AmountText.tsx:169-186)
getValue(discreet, st) ==
    IF discreet THEN Str(Repeat("*", 8))
    ELSE IF st.showOriginalValue THEN Str(formatNumber(st.originalValue))
    ELSE st.value

\* the component is mounted with some value: constructor, then
\* getDerivedStateFromProps before the first render
AmountTextInit ==
    /\ props \in [value : AmountValues]
    /\ state = getDerivedStateFromProps(props, InitialState)
    /\ alert = None

\* an AmountText that nobody touches
AmountTextIdle == AmountTextInit /\ props.value = Str(<<"0">>)

\* the parent renders the component with a new value
receiveProps(value) ==
    /\ props' = [value |-> value]
    /\ state' = getDerivedStateFromProps(props', state)
    /\ UNCHANGED alert

\* onPress (AmountText.tsx:151-167), with toggleShowOriginalValue
\* (AmountText.tsx:128-134) and the render that follows its setState; an
\* open Alert is modal, so no press reaches the component under it
onPress ==
    /\ alert = None
    /\ CASE state.truncated = "HIGH" ->
              /\ state' = getDerivedStateFromProps(props,
                              [state EXCEPT !.showOriginalValue = ~@])
              /\ UNCHANGED alert
         [] state.truncated = "LOW" ->
              /\ alert' = Some(alertOriginalValue(state))
              /\ UNCHANGED state
         [] OTHER -> UNCHANGED <<state, alert>>
    /\ UNCHANGED props

\* the user closes the Alert
dismissAlert ==
    /\ alert # None
    /\ alert' = None
    /\ UNCHANGED <<props, state>>

(* ------------------ NFT amounts of the Send screen --------------------- *)

\* the wire forms of the ordinal n: as NFTValueToXRPL writes it, and as
\* String() writes that number
WireForms(n) ==
    {NFTValueToXRPL(NatToChars(n)),
     NumberToString(ParseNumber(NFTValueToXRPL(NatToChars(n))))}

\* state.amount of the constructor (SendView.tsx:62); '' and undefined are
\* falsy
ConstructorAmount(propsAmount, nft) ==
    IF propsAmount \in {Undefined, Str(<<>>)} THEN <<>>
    ELSE IF nft THEN String(XRPLValueToNFT(Number(propsAmount)))
    ELSE propsAmount.chars

\* value of payment.Amount for an issued currency (SendView.tsx:200)
SendValue(nft, value) == IF nft THEN NFTValueToXRPL(value) ELSE value

VARIABLES
    codec,         \* an ordinal n, its wire form and what that decodes to
    nftSend        \* props.amount of a Send screen for an NFT, the
                   \* state.amount of its constructor, the value it sends

codecVars == <<codec, nftSend>>

\* an ordinal to encode, and a Send screen about to be constructed with an
\* NFT currency and an NFT amount in wire form
CodecInit ==
    /\ codec \in [n : {NatToChars(i) : i \in 1..MaxOrdinal},
                  wire : {Undefined}, decoded : {Undefined}]
    /\ nftSend \in [propsAmount : {Str(w) : w \in UNION {WireForms(i) : i \in 1..MaxOrdinal}},
                    amount : {Undefined}, value : {Undefined}]

\* no codec in use, no Send screen for an NFT
CodecIdle ==
    /\ codec = [n |-> <<>>, wire |-> Undefined, decoded |-> Undefined]
    /\ nftSend = [propsAmount |-> Undefined, amount |-> Undefined,
                  value |-> Undefined]

\* NFTValueToXRPL(n)
encode ==
    /\ codec.wire = Undefined
    /\ codec' = [codec EXCEPT !.wire = Str(NFTValueToXRPL(codec.n))]
    /\ UNCHANGED nftSend

\* XRPLValueToNFT of the wire form
decode ==
    /\ codec.wire # Undefined
    /\ codec.decoded = Undefined
    /\ codec' = [codec EXCEPT !.decoded = XRPLValueToNFT(Number(codec.wire))]
    /\ UNCHANGED nftSend

\* the constructor of the Send screen decodes props.amount (SendView.tsx:60-62)
constructNFT ==
    /\ nftSend.amount = Undefined
    /\ nftSend' = [nftSend EXCEPT
                     !.amount = Str(ConstructorAmount(nftSend.propsAmount, TRUE))]
    /\ UNCHANGED codec

\* send() encodes state.amount (SendView.tsx:197-201)
sendNFT ==
    /\ nftSend.amount # Undefined
    /\ nftSend.value = Undefined
    /\ nftSend' = [nftSend EXCEPT
                     !.value = Str(SendValue(TRUE, nftSend.amount.chars))]
    /\ UNCHANGED codec

(* ------------------------------- state --------------------------------- *)

VARIABLES
    currentStep,   \* state.currentStep
    isLoading,     \* state.isLoading
    source,        \* state.source (address of the account)
    currency,      \* state.currency
    sendingNFT,    \* state.sendingNFT
    amount,        \* state.amount
    destination,   \* state.destination (None is undefined)
    payment,       \* fields of state.payment, the screen's Payment instance
    flows,         \* the send() calls made so far (a bag of flow records)
    popGesture     \* Navigator option popGesture, merged by changeStep

vars == <<currentStep, isLoading, source, currency, sendingNFT, amount,
          destination, payment, flows, popGesture>>

\* the values the user enters
screen == <<source, currency, sendingNFT, amount, destination>>

\* new Payment()
NewPayment ==
    [Amount |-> None, TransferRate |-> None, Flags |-> None,
     Destination |-> None, Account |-> None]

\* the local variables of a send() call (SendView.tsx:173,185); they are
\* kept from the call to their last use in send()
NoLocals ==
    [currency |-> XRP, amount |-> <<>>, destination |-> None, source |-> "",
     sendingNFT |-> FALSE, transfer_rate |-> 0]

\* the record of a send() call at its start.  pc is the call the flow waits
\* for; the other fields record what the flow has done: the Payment methods
\* it invoked and those that resolved, whether it read a destination, where
\* it failed and with what value, whether the alert was shown, and the
\* outcomes of submit and verify.  finallyPending: this.submit has run as the
\* then-callback of sign and send() still awaits the promise of that then,
\* its finally block has not run
NewFlow ==
    [pc |-> "start", locals |-> NoLocals, finallyPending |-> FALSE,
     invoked |-> {}, completed |-> {}, destinationSet |-> FALSE,
     failedAt |-> "none", error |-> "none", alerted |-> FALSE,
     submitResult |-> "none", verifyResult |-> "none"]

\* the flows, each once
Flows == BagToSet(flows)

\* the number of flows that are in the set S of flow records
Count(S) == BagCardinality([fl \in S \cap Flows |-> flows[fl]])

\* the flows with the flow fl replaced by fl2
ReplaceFlow(fl, fl2) == (flows (-) SetToBag({fl})) (+) SetToBag({fl2})

\* a send() call that has started and not reached the end of send()
InSend(fl) ==
    \/ fl.pc \in {"getAccountTransferRate", "validate", "sign"}
    \/ fl.finallyPending

\* constructor (SendView.tsx:54-78)
SendViewInit ==
    /\ currentStep = "Details"
    /\ isLoading = FALSE
    /\ source \in Accounts
    /\ currency \in Currencies
    /\ sendingNFT = (currency.type # "string" /\ currency.isNFT)
    /\ amount \in Amounts
    /\ destination = None
    /\ payment = NewPayment
    /\ flows = EmptyBag
    /\ popGesture = TRUE

\* a Send screen that no user touches: the other components are exercised
SendViewIdle == SendViewInit /\ source = "rA" /\ currency = XRP

\* a Send screen is constructed; no other component is in use
Init == SendViewInit /\ BlobNew /\ AmountTextIdle /\ CodecIdle

(* --------------------------- user events ------------------------------- *)

\* setSource (SendView.tsx:96-98)
setSource(a) ==
    /\ source' = a
    /\ UNCHANGED <<currentStep, isLoading, currency, sendingNFT, amount,
                   destination, payment, flows, popGesture>>

\* setCurrency (SendView.tsx:100-105)
setCurrency(c) ==
    /\ currency' = c
    /\ sendingNFT' = (c.type # "string" /\ c.isNFT)
    /\ UNCHANGED <<currentStep, isLoading, source, amount, destination,
                   payment, flows, popGesture>>

\* setAmount (SendView.tsx:107-109)
setAmount(a) ==
    /\ amount' = a
    /\ UNCHANGED <<currentStep, isLoading, source, currency, sendingNFT,
                   destination, payment, flows, popGesture>>

\* setDestination (SendView.tsx:111-113)
setDestination(d) ==
    /\ destination' = Some(d)
    /\ UNCHANGED <<currentStep, isLoading, source, currency, sendingNFT,
                   amount, payment, flows, popGesture>>

\* changeStep (SendView.tsx:123-135)
changeStep(step) ==
    /\ popGesture' = (IF step = "Summary" THEN FALSE ELSE popGesture)
    /\ currentStep' = step

(* ----------------------- send(): the pieces ---------------------------- *)

\* mutant of catchAlert: the alert is shown without testing e
catchAlert_NoTest(e) == TRUE

\* catch (e) { if (e) Navigator.showAlertModal(...) } (SendView.tsx:220-233)
catchAlert(e) == e # "undefined"

\* the catch and finally blocks of send() for a flow that failed at `site`
\* with the value e (SendView.tsx:220-239)
catch(fl, site, e) ==
    [fl EXCEPT !.pc = "end", !.locals = NoLocals, !.failedAt = site,
               !.error = e, !.alerted = catchAlert(e)]

\* mutant of NeedsPartialPayment: the flag only for a transfer rate charged
\* to a sender that is not the issuer
NeedsPartialPayment_NotIssuer(transfer_rate, issuer, src) ==
    transfer_rate # 0 /\ issuer # src

\* the condition under which send() sets the PartialPayment flag
\* (SendView.tsx:193)
NeedsPartialPayment(transfer_rate, issuer, src) ==
    transfer_rate # 0 \/ issuer = src

\* mutant of callValidate: validate is called without await, so sign is
\* called right after it
callValidate_NoAwait(fl) ==
    [fl EXCEPT !.pc = "sign", !.invoked = @ \cup {"validate", "sign"}]

\* await payment.validate(source) (SendView.tsx:216): the call is made and
\* the flow waits for it
callValidate(fl) ==
    [fl EXCEPT !.pc = "validate", !.invoked = @ \cup {"validate"}]

\* await payment.sign(source).then(this.submit) (SendView.tsx:219): reached
\* when validate has resolved; the call is made and the flow waits for it
callSign(fl) ==
    [fl EXCEPT !.pc = "sign", !.completed = @ \cup {"validate"},
               !.invoked = @ \cup {"sign"}]

\* this.submit as the then-callback of sign (SendView.tsx:219,137-143):
\* sign has resolved, payment.submit() is called; send() still awaits the
\* promise of the then
callSubmit(fl) ==
    [fl EXCEPT !.pc = "submit", !.finallyPending = TRUE,
               !.locals = NoLocals,
               !.completed = @ \cup {"sign"},
               !.invoked = @ \cup {"submit"}]

\* mutant of stepAfterSubmit: the result of submit is not tested
stepAfterSubmit_NoTest(res) == "Verifying"

\* the step shown once payment.submit() has resolved (SendView.tsx:144-168)
stepAfterSubmit(res) == IF res = "success" THEN "Verifying" ELSE "Result"

\* SendView.tsx:204-216: set Destination and Account, then call validate;
\* reading destination.address of an undefined destination throws a
\* TypeError, which the catch block of send() handles
setDestinationAndValidate(p, fl) ==
    IF fl.locals.destination = None
    THEN [payment |-> p, flow |-> catch(fl, "destination", "TypeError")]
    ELSE [payment |-> [p EXCEPT
                         !.Destination =
                            Some([address |-> fl.locals.destination[1].address,
                                  tag |-> fl.locals.destination[1].tag]),
                         !.Account = Some([address |-> fl.locals.source])],
          flow |-> callValidate(fl)]

\* send() up to its first await (SendView.tsx:172-185,204-216)
sendStart(fl) ==
    IF fl.locals.currency.type = "string"
    THEN setDestinationAndValidate(
             [payment EXCEPT !.Amount = Some(Str(fl.locals.amount))], fl)
    ELSE [payment |-> payment,
          flow |-> [fl EXCEPT !.pc = "getAccountTransferRate"]]

\* send() from the transfer rate to the call of validate
\* (SendView.tsx:185-216)
sendWithTransferRate(fl, transfer_rate) ==
    LET l  == fl.locals
        p1 == IF transfer_rate # 0
              THEN [payment EXCEPT !.TransferRate = Some(transfer_rate)]
              ELSE payment
        p2 == IF NeedsPartialPayment(transfer_rate, l.currency.issuer,
                                     l.source)
              THEN [p1 EXCEPT !.Flags = Some(<<PartialPayment>>)]
              ELSE p1
        p3 == [p2 EXCEPT !.Amount =
                 Some([currency |-> l.currency.currency,
                       issuer |-> l.currency.issuer,
                       value |-> SendValue(l.sendingNFT, l.amount)])]
    IN  setDestinationAndValidate(
            p3, [fl EXCEPT !.locals.transfer_rate = transfer_rate])

\* send (SendView.tsx:172-240): the call reads the state, sets isLoading
\* and runs to its first await; a flow that already ended there has run
\* its finally block
send ==
    LET fl0 == [NewFlow EXCEPT
                  !.locals = [currency |-> currency, amount |-> amount,
                              destination |-> destination,
                              source |-> source,
                              sendingNFT |-> sendingNFT,
                              transfer_rate |-> 0],
                  !.destinationSet = (destination # None)]
        r == sendStart(fl0)
    IN  /\ payment' = r.payment
        /\ flows' = flows (+) SetToBag({r.flow})
        /\ isLoading' = (r.flow.pc # "end")

\* goNext (SendView.tsx:242-261)
goNext ==
    /\ CASE currentStep = "Details" ->
              /\ changeStep("Recipient")
              /\ UNCHANGED <<isLoading, payment, flows>>
         [] currentStep = "Recipient" ->
              /\ changeStep("Summary")
              /\ UNCHANGED <<isLoading, payment, flows>>
         [] currentStep = "Summary" ->
              /\ BagCardinality(flows) < MaxFlows
              /\ send
              /\ UNCHANGED <<currentStep, popGesture>>
         [] OTHER ->
              \* Result: Navigator.popToRoot(); Submitting, Verifying: nothing
              UNCHANGED <<currentStep, isLoading, payment, flows,
                          popGesture>>
    /\ UNCHANGED screen

\* goBack (SendView.tsx:263-279)
goBack ==
    /\ CASE currentStep = "Recipient" -> changeStep("Details")
         [] currentStep = "Summary" -> changeStep("Recipient")
         [] OTHER ->
              \* Details: Navigator.pop(); later steps: nothing
              UNCHANGED <<currentStep, popGesture>>
    /\ UNCHANGED <<screen, isLoading, payment, flows>>

(* ------------------ send(): the asynchronous steps --------------------- *)

\* LedgerService.getAccountTransferRate resolved (SendView.tsx:185-216)
sendAfterTransferRate(fl, transfer_rate) ==
    /\ fl.pc = "getAccountTransferRate"
    /\ LET r == sendWithTransferRate(fl, transfer_rate)
       IN  /\ payment' = r.payment
           /\ flows' = ReplaceFlow(fl, r.flow)
           /\ isLoading' = (IF r.flow.pc = "end" THEN FALSE ELSE isLoading)
    /\ UNCHANGED <<screen, currentStep, popGesture>>

\* LedgerService.getAccountTransferRate rejected (SendView.tsx:185,220-239)
sendTransferRateRejected(fl, e) ==
    /\ fl.pc = "getAccountTransferRate"
    /\ flows' = ReplaceFlow(fl, catch(fl, "getAccountTransferRate", e))
    /\ isLoading' = FALSE
    /\ UNCHANGED <<screen, currentStep, payment, popGesture>>

\* payment.validate resolved: sign is called (SendView.tsx:216-219)
sendAfterValidate(fl) ==
    /\ fl.pc = "validate"
    /\ flows' = ReplaceFlow(fl, callSign(fl))
    /\ UNCHANGED <<screen, currentStep, isLoading, payment, popGesture>>

\* payment.validate rejected (SendView.tsx:216,220-239)
sendValidateRejected(fl, e) ==
    /\ fl.pc = "validate"
    /\ flows' = ReplaceFlow(fl, catch(fl, "validate", e))
    /\ isLoading' = FALSE
    /\ UNCHANGED <<screen, currentStep, payment, popGesture>>

\* submit (SendView.tsx:137-143), run for the flow fl as the then-callback
\* of its sign: the step changes and payment.submit() is called
submit(fl) ==
    /\ changeStep("Submitting")
    /\ flows' = ReplaceFlow(fl, callSubmit(fl))

\* payment.sign resolved: its then-callback submit() runs
\* (SendView.tsx:219,137-143); send() goes on in a later job
sendAfterSign(fl) ==
    /\ fl.pc = "sign"
    /\ submit(fl)
    /\ UNCHANGED <<screen, isLoading, payment>>

\* the promise of sign(...).then(this.submit) that send() awaits is
\* fulfilled: send() leaves its try block and runs its finally block
\* (SendView.tsx:219,235-239).  The callbacks of other promises run between
\* submit() and this continuation; how many of them depends on the jobs the
\* engine takes for an await and on whether the promises of submit() and
\* verify() are settled already
sendFinally(fl) ==
    /\ fl.finallyPending
    /\ flows' = ReplaceFlow(fl, [fl EXCEPT !.finallyPending = FALSE])
    /\ isLoading' = FALSE
    /\ UNCHANGED <<screen, currentStep, payment, popGesture>>

\* payment.sign rejected (SendView.tsx:219,220-239)
sendSignRejected(fl, e) ==
    /\ fl.pc = "sign"
    /\ flows' = ReplaceFlow(fl, catch(fl, "sign", e))
    /\ isLoading' = FALSE
    /\ UNCHANGED <<screen, currentStep, payment, popGesture>>

(* --------------------- submit(): the callbacks ------------------------- *)

\* the then-callback of payment.submit() (SendView.tsx:143-169): on success
\* setState({currentStep: Verifying}, callback) and the callback calls
\* payment.verify(); otherwise changeStep(Result)
submitThen(fl, res) ==
    /\ fl.pc = "submit"
    /\ IF stepAfterSubmit(res) = "Verifying"
       THEN /\ currentStep' = "Verifying"
            /\ flows' = ReplaceFlow(fl,
                           [fl EXCEPT !.pc = "verify",
                                      !.completed = @ \cup {"submit"},
                                      !.submitResult = res,
                                      !.invoked = @ \cup {"verify"}])
            /\ UNCHANGED popGesture
       ELSE /\ changeStep(stepAfterSubmit(res))
            /\ flows' = ReplaceFlow(fl,
                           [fl EXCEPT !.pc = "end",
                                      !.completed = @ \cup {"submit"},
                                      !.submitResult = res])
    /\ UNCHANGED <<screen, isLoading, payment>>

\* payment.submit() rejected: the promise has no rejection handler
\* (SendView.tsx:143-169)
submitRejected(fl) ==
    /\ fl.pc = "submit"
    /\ flows' = ReplaceFlow(fl, [fl EXCEPT !.pc = "end",
                                           !.submitResult = "rejected"])
    /\ UNCHANGED <<screen, currentStep, isLoading, payment, popGesture>>

\* state.coreSettings as the constructor read them (SendView.tsx:74);
\* submit() reads hapticFeedback, which decides on the calls of
\* VibrateHapticFeedback only and on nothing of the state
CoreSettings == [hapticFeedback : BOOLEAN]

\* what the then-callback of payment.verify() does with the result
\* (SendView.tsx:150-160): the haptic feedback it asks for, none when the
\* setting hapticFeedback is off, and the step it moves to
verifyCallback(coreSettings, res) ==
    [haptic |-> IF ~coreSettings.hapticFeedback THEN "none"
                ELSE IF res = "success" THEN "notificationSuccess"
                ELSE "notificationError",
     currentStep |-> "Result"]

\* the then-callback of payment.verify() (SendView.tsx:150-160)
verifyThen(fl, res) ==
    /\ fl.pc = "verify"
    /\ \E coreSettings \in CoreSettings :
          changeStep(verifyCallback(coreSettings, res).currentStep)
    /\ flows' = ReplaceFlow(fl, [fl EXCEPT !.pc = "end",
                                           !.completed = @ \cup {"verify"},
                                           !.verifyResult = res])
    /\ UNCHANGED <<screen, isLoading, payment>>

\* payment.verify() rejected: the promise has no rejection handler
\* (SendView.tsx:150-160)
verifyRejected(fl) ==
    /\ fl.pc = "verify"
    /\ flows' = ReplaceFlow(fl, [fl EXCEPT !.pc = "end",
                                           !.verifyResult = "rejected"])
    /\ UNCHANGED <<screen, currentStep, isLoading, payment, popGesture>>

(* --------------------------- specification ----------------------------- *)

\* the variables of the components other than the Send screen, the Blob
\* fields, the AmountText, the NFT codec
notSendView == <<blobVars, amountTextVars, codecVars>>
notBlob == <<vars, amountTextVars, codecVars>>
notAmountText == <<vars, blobVars, codecVars>>
notCodec == <<vars, blobVars, amountTextVars>>

Next ==
    \/ /\ \E a \in Accounts : setSource(a)
       /\ UNCHANGED notSendView
    \/ /\ \E c \in Currencies : setCurrency(c)
       /\ UNCHANGED notSendView
    \/ /\ \E a \in Amounts : setAmount(a)
       /\ UNCHANGED notSendView
    \/ /\ \E d \in Destinations : setDestination(d)
       /\ UNCHANGED notSendView
    \/ /\ goNext
       /\ UNCHANGED notSendView
    \/ /\ goBack
       /\ UNCHANGED notSendView
    \/ /\ \E fl \in Flows, r \in TransferRates : sendAfterTransferRate(fl, r)
       /\ UNCHANGED notSendView
    \/ /\ \E fl \in Flows, e \in Rejections.getAccountTransferRate :
             sendTransferRateRejected(fl, e)
       /\ UNCHANGED notSendView
    \/ /\ \E fl \in Flows : sendAfterValidate(fl)
       /\ UNCHANGED notSendView
    \/ /\ \E fl \in Flows, e \in Rejections.validate :
             sendValidateRejected(fl, e)
       /\ UNCHANGED notSendView
    \/ /\ \E fl \in Flows : sendAfterSign(fl)
       /\ UNCHANGED notSendView
    \/ /\ \E fl \in Flows, e \in Rejections.sign : sendSignRejected(fl, e)
       /\ UNCHANGED notSendView
    \/ /\ \E fl \in Flows : sendFinally(fl)
       /\ UNCHANGED notSendView
    \/ /\ \E fl \in Flows, res \in Results : submitThen(fl, res)
       /\ UNCHANGED notSendView
    \/ /\ \E fl \in Flows : submitRejected(fl)
       /\ UNCHANGED notSendView
    \/ /\ \E fl \in Flows, res \in VerifyResults : verifyThen(fl, res)
       /\ UNCHANGED notSendView
    \/ /\ \E fl \in Flows : verifyRejected(fl)
       /\ UNCHANGED notSendView

Spec == Init /\ [][Next]_vars

\* the accessors of the Blob fields of one instance
BlobInit == BlobNew /\ SendViewIdle /\ AmountTextIdle /\ CodecIdle

BlobNext ==
    \/ /\ \E name \in FieldNames, value \in BlobValues : BlobSet(name, value)
       /\ UNCHANGED notBlob
    \/ /\ \E name \in FieldNames : BlobGet(name)
       /\ UNCHANGED notBlob

BlobSpec == BlobInit /\ [][BlobNext]_blobVars

\* one AmountText whose parent changes the value and whose user presses it
AmountTextSpecInit == AmountTextInit /\ SendViewIdle /\ BlobNew /\ CodecIdle

AmountTextNext ==
    \/ /\ \E value \in AmountValues : receiveProps(value)
       /\ UNCHANGED notAmountText
    \/ /\ onPress
       /\ UNCHANGED notAmountText
    \/ /\ dismissAlert
       /\ UNCHANGED notAmountText

AmountTextSpec == AmountTextSpecInit /\ [][AmountTextNext]_amountTextVars

\* the NFT codec alone, and in the constructor and send() of a Send screen
CodecSpecInit == CodecInit /\ SendViewIdle /\ BlobNew /\ AmountTextIdle

CodecNext ==
    \/ /\ encode
       /\ UNCHANGED notCodec
    \/ /\ decode
       /\ UNCHANGED notCodec
    \/ /\ constructNFT
       /\ UNCHANGED notCodec
    \/ /\ sendNFT
       /\ UNCHANGED notCodec

CodecSpec == CodecSpecInit /\ [][CodecNext]_codecVars


(* ------------------------------ claims --------------------------------- *)

\* the PartialPayment flag of the payment p
HasFlag(p, flag) ==
    /\ p.Flags # None
    /\ \E i \in DOMAIN p.Flags[1] : p.Flags[1][i] = flag

\* the number of calls of a Payment method made so far
Calls(method) == Count({fl \in Flows : method \in fl.invoked})

\* the number of send() calls that ended in their catch block
Failures == Count({fl \in Flows : fl.failedAt # "none"})

\* the number of submit() calls that resolved without success, and the
\* number that did not succeed (resolved without success, or rejected)
NotAccepted == Count({fl \in Flows : fl.submitResult = "failure"})
NotSubmitted == Count({fl \in Flows : fl.submitResult \in {"failure", "rejected"}})

\* the flows that called payment.submit() and still wait for submit or verify
Pending == Count({fl \in Flows : fl.pc \in {"submit", "verify"}})

\* C1: payment.submit() is invoked at most once for the Payment instance of
\* a screen, whatever the user events and their interleaving.
C1_SubmitAtMostOnce == Calls("submit") <= 1

\* C2: while one send() flow is between its start and its completion, no
\* second send() flow is running on the same payment.
C2_OneSendAtATime == Count({fl \in Flows : InSend(fl)}) <= 1

\* C3: in every send flow validate has completed when sign begins, sign has
\* completed when submit begins, and submit has returned its result when
\* verify begins.
C3_CallOrder ==
    \A fl \in Flows :
        /\ "sign" \in fl.invoked => "validate" \in fl.completed
        /\ "submit" \in fl.invoked => "sign" \in fl.completed
        /\ "verify" \in fl.invoked =>
              "submit" \in fl.completed /\ fl.submitResult = "success"

\* C3 witness: a flow went through validate, sign, submit and verify
C3_Witness ==
    \E fl \in Flows :
        fl.pc = "end" /\ fl.completed = {"validate", "sign", "submit", "verify"}

\* C4 as stated: a send() that fails in the transfer-rate lookup, validate
\* or sign calls neither submit nor verify, leaves the step alone, and shows
\* the error in an alert.
C4_FailureAlerted ==
    /\ [](\A fl \in Flows :
            fl.failedAt # "none" =>
                /\ "submit" \notin fl.invoked
                /\ "verify" \notin fl.invoked
                /\ fl.alerted)
    /\ [][Failures' > Failures => currentStep' = currentStep]_vars

\* C4 as amended: a send() that fails before submit calls neither submit nor
\* verify and leaves the step alone; the alert is shown exactly when the
\* value caught is truthy, a rejection without a value shows no alert.
C4_FailureAlertedIfTruthy ==
    /\ [](\A fl \in Flows :
            fl.failedAt # "none" =>
                /\ "submit" \notin fl.invoked
                /\ "verify" \notin fl.invoked
                /\ fl.alerted <=> (fl.error # "undefined"))
    /\ [][Failures' > Failures =>
            /\ currentStep' = currentStep
            /\ Calls("submit")' = Calls("submit")
            /\ Calls("verify")' = Calls("verify")]_vars

\* C4 witness: one send() failed in sign with an error and showed the alert,
\* another was rejected in sign without a value and showed none
C4_Witness ==
    /\ \E fl \in Flows :
          fl.failedAt = "sign" /\ fl.error = "SigningError" /\ fl.alerted
    /\ \E fl \in Flows :
          fl.failedAt = "sign" /\ fl.error = "undefined" /\ ~fl.alerted
    /\ currentStep = "Summary"

\* C5: a send() that runs while no destination is set fails in validate()
\* with a ValidationError, and calls neither sign nor submit.
C5_NoDestinationFailsValidate ==
    \A fl \in Flows :
        (~fl.destinationSet /\ fl.pc = "end"
            /\ fl.failedAt # "getAccountTransferRate") =>
            /\ fl.failedAt = "validate"
            /\ fl.error = "ValidationError"
            /\ "sign" \notin fl.invoked
            /\ "submit" \notin fl.invoked

\* C6: a submit() that reports a non-successful result takes its flow to
\* Result at once: the flow never waits for verify and verify is not called
\* for it.
C6_NotAcceptedSkipsVerify ==
    /\ [](\A fl \in Flows :
            fl.submitResult = "failure" =>
                fl.pc = "end" /\ "verify" \notin fl.invoked)
    /\ [][NotAccepted' > NotAccepted =>
            /\ currentStep' = "Result"
            /\ Calls("verify")' = Calls("verify")]_vars

\* C6 witness: a submit reported failure and the screen shows Result
C6_Witness ==
    /\ currentStep = "Result"
    /\ \E fl \in Flows :
          fl.submitResult = "failure" /\ "submit" \in fl.completed

\* C7: from the moment submit() reports success until verify() has returned
\* its result the step is Verifying; Result is not shown before.
C7_VerifyingUntilVerified ==
    \A fl \in Flows :
        (fl.submitResult = "success" /\ "verify" \notin fl.completed) =>
            currentStep = "Verifying"

\* C8: a flow that entered Submitting reaches Result for every outcome of
\* submit() and verify(): once no call of submit or verify is outstanding,
\* the step is Result.
C8_SubmittingEndsInResult ==
    (Calls("submit") > 0 /\ Pending = 0) => currentStep = "Result"

\* C9: when submit() fails or reports non-acceptance, the controller calls
\* neither sign nor submit again and surfaces the failure by moving to
\* Result.
C9_FailureSurfacedNotRetried ==
    [][NotSubmitted' > NotSubmitted =>
        /\ currentStep' = "Result"
        /\ Calls("sign")' = Calls("sign")
        /\ Calls("submit")' = Calls("submit")]_vars

\* C10: whenever send() waits for validate() with an issued currency whose
\* issuer has a non-zero transfer rate or is the source account, the Flags of
\* the payment contain PartialPayment.
C10_PartialPaymentFlag ==
    \A fl \in Flows :
        (/\ fl.pc = "validate"
         /\ fl.locals.currency.type # "string"
         /\ \/ fl.locals.transfer_rate # 0
            \/ fl.locals.currency.issuer = fl.locals.source) =>
            HasFlag(payment, PartialPayment)

\* C10 witness: validate is reached for the source's own currency, without a
\* transfer rate, and the flag is set
C10_Witness ==
    \E fl \in Flows :
        /\ fl.pc = "validate"
        /\ fl.locals.currency.type # "string"
        /\ fl.locals.transfer_rate = 0
        /\ fl.locals.currency.issuer = fl.locals.source
        /\ HasFlag(payment, PartialPayment)

\* C11: whenever a send() call waits for validate() with an issued currency
\* whose issuer charges no transfer rate and is not the source account, the
\* Flags of the payment do not contain PartialPayment; stated for a call that
\* is the only one in send(), so for every attempt made one after the other.
C11_NoStalePartialPayment ==
    \A fl \in Flows :
        (/\ fl.pc = "validate"
         /\ Count({f \in Flows : InSend(f)}) = 1
         /\ fl.locals.currency.type # "string"
         /\ fl.locals.transfer_rate = 0
         /\ fl.locals.currency.issuer # fl.locals.source) =>
            ~HasFlag(payment, PartialPayment)

\* C12: whenever a send() call waits for validate(), payment.TransferRate is
\* set exactly if the currency of this call is an issued currency whose
\* issuer charges a transfer rate; stated for a call that is the only one in
\* send().
C12_TransferRateOfThisAttempt ==
    \A fl \in Flows :
        (/\ fl.pc = "validate"
         /\ Count({f \in Flows : InSend(f)}) = 1) =>
            (payment.TransferRate # None <=>
                (/\ fl.locals.currency.type # "string"
                 /\ fl.locals.transfer_rate # 0))

\* the hexadecimal digits, and the strings of an even number of them
IsHex(value) ==
    /\ TypeOf(value) = "string"
    /\ Len(value.chars) % 2 = 0
    /\ \A i \in DOMAIN value.chars :
          value.chars[i] \in
              {"0", "1", "2", "3", "4", "5", "6", "7", "8", "9",
               "a", "b", "c", "d", "e", "f", "A", "B", "C", "D", "E", "F"}

\* C13: after the Blob setter was called with a valid hex string, the call
\* has not thrown and the getter of the same name returns exactly that
\* string, whatever the field held before.
C13_BlobSetGet ==
    (blobCall.op = "set" /\ IsHex(blobCall.value)) =>
        /\ blobCall.thrown = "none"
        /\ getter(self, blobCall.name) = blobCall.value

\* C13 witness: a mixed-case hex string was set and is read back, while the
\* other field of the instance holds another string
C13_Witness ==
    /\ blobCall.op = "set"
    /\ blobCall.value = Str(<<"a", "F">>)
    /\ getter(self, blobCall.name) = Str(<<"a", "F">>)
    /\ \E name \in FieldNames \ {blobCall.name} :
          getter(self, name) = Str(<<"F", "a">>)

\* C14: a call of the Blob setter with a defined value that is not a string
\* of an even number of hex characters throws a TypeValidationError and
\* leaves the fields of the instance as they were.
C14_NonHexRejected ==
    [][(/\ blobCall'.op = "set"
        /\ TypeOf(blobCall'.value) # "undefined"
        /\ ~IsHex(blobCall'.value)) =>
          /\ blobCall'.thrown = "TypeValidationError"
          /\ self' = self]_blobVars

\* C15: after the Blob setter was called with undefined, the call has not
\* thrown and the getter of the same name returns undefined, whatever the
\* field held before.
C15_UndefinedClears ==
    (blobCall.op = "set" /\ TypeOf(blobCall.value) = "undefined") =>
        /\ blobCall.thrown = "none"
        /\ getter(self, blobCall.name) = Undefined

\* C15 witness: undefined was set and the field reads undefined, while the
\* other field of the instance still holds its string
C15_Witness ==
    /\ blobCall.op = "set"
    /\ TypeOf(blobCall.value) = "undefined"
    /\ blobCall.thrown = "none"
    /\ getter(self, blobCall.name) = Undefined
    /\ \E name \in FieldNames \ {blobCall.name} :
          TypeOf(getter(self, name)) = "string"

\* C16: whenever the value prop is numerically zero, the derived display
\* value and the text that getValue shows are the literal "0": neither an
\* NFT ordinal nor the display of a truncated amount.
C16_ZeroDisplaysZero ==
    IsZero(Number(props.value)) =>
        /\ state.value = Str(<<"0">>)
        /\ getValue(FALSE, state) = Str(<<"0">>)

\* C16 witness: the value "0.0" has replaced an amount that was displayed
\* truncated, and "0" is displayed
C16_Witness ==
    /\ props.value = Str(<<"0", ".", "0">>)
    /\ state.truncated = "LOW"
    /\ state.value = Str(<<"0">>)

\* C17: whenever the value prop is a positive amount below 0.00000001 that
\* is no NFT amount, the derived display value is "0..." and the truncated
\* flag is LOW.
C17_LowBelowPrecisionFloor ==
    LET x == Number(props.value)
        floor == ParseNumber(<<"0", ".">> \o Repeat("0", PRECISION - 1) \o <<"1">>)
    IN  (Less(Zero, x) /\ Less(x, floor) /\ XRPLValueToNFT(x) = False) =>
            /\ state.value = Str(Ellipsis)
            /\ state.truncated = "LOW"

\* C18: whenever the value prop is an amount above 99999 that is no NFT
\* amount, the truncated flag is HIGH and the display value is the integer
\* part of the amount, without fractional digits; whenever the value prop is
\* not above 99999, the truncated flag is not HIGH.
C18_HighAboveMaxOnly ==
    LET x == Number(props.value)
        max == ParseNumber(NatToChars(MAX_VALUE))
    IN  /\ (Less(max, x) /\ XRPLValueToNFT(x) = False) =>
              /\ state.truncated = "HIGH"
              /\ state.value = Str(ToFixed(Trunc(x)))
        /\ ~Less(max, x) => state.truncated # "HIGH"

\* C19: whenever a press opens the alert of a low amount, the alert shows
\* the amount that props.value holds at that moment, and whenever a press
\* switches the display of an amount above 99999 to the original value, the
\* text shown is the amount that props.value holds.
C19_OriginalValueIsCurrent ==
    [][/\ (alert = None /\ alert' # None) =>
             ParseNumber(alert'[1]) = Number(props.value)
       /\ (/\ ~state.showOriginalValue
           /\ state'.showOriginalValue
           /\ Less(ParseNumber(NatToChars(MAX_VALUE)), Number(props.value))) =>
             Number(getValue(FALSE, state')) = Number(props.value)]_amountTextVars

\* C21: when the only send() call of a screen has ended with a verify() that
\* reported no outcome within its polling budget, the terminal state of the
\* screen differs from the one it has after a verify() that reported a
\* failure confirmed by the ledger.
C21_TimeoutDistinctFromFailure ==
    \A fl \in Flows, coreSettings \in CoreSettings :
        (/\ BagCardinality(flows) = 1
         /\ fl.pc = "end"
         /\ ~fl.finallyPending
         /\ fl.verifyResult = "timeout") =>
            [haptic |-> verifyCallback(coreSettings, fl.verifyResult).haptic,
             currentStep |-> currentStep] #
                verifyCallback(coreSettings, "failure")

\* C22: on a screen with a single send() call, payment.submit() is invoked
\* only while currentStep is Summary, and the step Submitting is entered
\* only from Summary: a call that the user left with goBack does not go on
\* to submit.
C22_SubmitOnlyFromSummary ==
    [][BagCardinality(flows) = 1 =>
        /\ Calls("submit")' > Calls("submit") => currentStep = "Summary"
        /\ (currentStep # "Submitting" /\ currentStep' = "Submitting") =>
              currentStep = "Summary"]_vars

\* C23: in every state of an AmountText the truncated flag is LOW exactly
\* when the display value is "0...", and HIGH exactly when the display value
\* is a string of digits that write an integer above 99999 (otherwise it is
\* unset).
C23_TruncatedMatchesDisplay ==
    LET low == state.value = Str(Ellipsis)
        high == /\ TypeOf(state.value) = "string"
                /\ state.value.chars # <<>>
                /\ \A i \in DOMAIN state.value.chars : IsDigit(state.value.chars[i])
                /\ Less(ParseNumber(NatToChars(MAX_VALUE)), Number(state.value))
    IN  /\ state.truncated = "LOW" <=> low
        /\ state.truncated = "HIGH" <=> high

\* the steps from the beginning of the submission on
LateSteps == {"Submitting", "Verifying", "Result"}

\* the moves of the step by goNext and goBack (SendView.tsx:242-279)
UserMoves ==
    {<<"Details", "Recipient">>, <<"Recipient", "Summary">>,
     <<"Summary", "Recipient">>, <<"Recipient", "Details">>}

\* C24: the step only moves forward once the submission has begun: a user
\* event (a step of the screen in which no send() call starts or advances)
\* moves the step by goNext along Details -> Recipient -> Summary or by
\* goBack along Summary -> Recipient -> Details and leaves it unchanged at
\* Submitting, Verifying and Result; from these three steps the step never
\* returns to Details, Recipient or Summary, and once it is Result it never
\* changes again.
C24_StepOnlyForward ==
    [][/\ (flows' = flows /\ currentStep' # currentStep) =>
             <<currentStep, currentStep'>> \in UserMoves
       /\ currentStep \in LateSteps => currentStep' \in LateSteps
       /\ currentStep = "Result" => currentStep' = "Result"]_vars

\* a promise that a send() call awaits settles: the transfer-rate lookup,
\* validate or sign resolves or rejects and send() runs on to its next await
\* or to its end (SendView.tsx:185,216,219)
SendProgress ==
    \/ /\ \E fl \in Flows, r \in TransferRates : sendAfterTransferRate(fl, r)
       /\ UNCHANGED notSendView
    \/ /\ \E fl \in Flows, e \in Rejections.getAccountTransferRate :
             sendTransferRateRejected(fl, e)
       /\ UNCHANGED notSendView
    \/ /\ \E fl \in Flows : sendAfterValidate(fl)
       /\ UNCHANGED notSendView
    \/ /\ \E fl \in Flows, e \in Rejections.validate :
             sendValidateRejected(fl, e)
       /\ UNCHANGED notSendView
    \/ /\ \E fl \in Flows : sendAfterSign(fl)
       /\ UNCHANGED notSendView
    \/ /\ \E fl \in Flows, e \in Rejections.sign : sendSignRejected(fl, e)
       /\ UNCHANGED notSendView
    \/ /\ \E fl \in Flows : sendFinally(fl)
       /\ UNCHANGED notSendView

\* the Send screen when every promise awaited by send() settles and the
\* event loop runs the continuation of send()
LiveSpec == Spec /\ WF_vars(SendProgress)

\* the number of send() calls in progress: started, and the finally block
\* that ends them not yet run
Sending == Count({fl \in Flows : InSend(fl)})

\* C25: isLoading is true exactly while a send() call is in progress, from
\* its start until sign has completed and submit has been started or an
\* error was caught: it is never false while a send() awaits validate or
\* sign, and whenever it is true it eventually becomes false.
C25_LoadingWhileSending ==
    /\ [](isLoading <=> Sending > 0)
    /\ isLoading ~> ~isLoading

====
